---- MODULE Spec2Model ----
(***************************************************************************)
(* A model of src/lib.rs: the owning pointer Boks<T>, the debug-on-drop    *)
(* wrapper Oisann<T> and the empty iterator Empty<T>.                      *)
(*                                                                         *)
(* The state is one function scope that declares boxes b1, b2, ... in      *)
(* order (as the tests do), the heap those boxes allocate from, the        *)
(* borrows outstanding on each box, one stack variable z that a box may    *)
(* hold a `&mut` to, and the trace of allocator calls and debug prints.    *)
(***************************************************************************)
EXTENDS Integers, Sequences, FiniteSets

\* ---------------------------------------------------------------- bounds
MaxBoks == 2
MaxRefs == 2
MaxCalls == 30

Slots == 1..MaxBoks
\* The heap has room for every box the scope can declare.
Addr == 1..MaxBoks
NULL == 0

\* --------------------------------------------------------------- types T
\* The contained types the tests instantiate Boks<T> with.
Types == {"i32", "refmut", "Oisann_i32", "Oisann_refmut", "str_static", "str_local"}

\* The i32 of the tests (42) and one other value, for writes.
I32 == {7, 42}

\* The values Boks::ne is called with: [ty, n]; n is the number for an i32
\* (or Oisann<i32>), and the referent for a reference: 0 is the stack
\* variable (y / z of the tests), 1 the static "hello", 2 the String s.
Vals ==
    {[ty |-> "i32", n |-> 42], [ty |-> "Oisann_i32", n |-> 42]}
    \cup {[ty |-> "refmut", n |-> 0], [ty |-> "Oisann_refmut", n |-> 0]}
    \cup {[ty |-> "str_static", n |-> 1], [ty |-> "str_local", n |-> 2]}

Uninit == [ty |-> "uninit", n |-> 0]

\* T is, or wraps, a `&mut` to the stack variable.
BorrowsZ(ty) == ty \in {"refmut", "Oisann_refmut"}

\* impl<T: Debug> Drop for Oisann<T>: T has a destructor that reads self.0.
HasObservingDrop(ty) == ty \in {"Oisann_i32", "Oisann_refmut"}

VARIABLES
    pc,         \* "running" | "exiting" | "done", or "rejected": it does not compile
    slot,       \* slot[b] = [st, id, p, ty]: the local variable b
    allocated,  \* the addresses the allocator has handed out and not taken back
    mem,        \* mem[a]: the value stored at address a
    log,        \* the trace of allocator calls and debug prints
    shared,     \* shared[b]: outstanding `&T` obtained through deref
    excl,       \* excl[b]: outstanding `&mut T` obtained through deref_mut
    dangling,   \* ids of boxes whose `&mut z` the owner's use of z has invalidated
    dirty,      \* ids written through deref_mut
    zval,       \* the stack variable z
    zLive,      \* z's storage is live
    lastAssign, \* the `dst = src` between boxes that the type checker rejected
    emptyT,     \* Empty<T>: the item type
    emptyCalls, \* calls to Empty::next so far
    emptyRet    \* what the last call returned

vars == <<pc, slot, allocated, mem, log, shared, excl, dangling, dirty, zval, zLive,
          lastAssign, emptyT, emptyCalls, emptyRet>>

boksVars == <<pc, slot, allocated, mem, log, shared, excl, dangling, dirty, zval,
              zLive, lastAssign>>

emptyVars == <<emptyT, emptyCalls, emptyRet>>

\* ------------------------------------------------------------ trace events
AllocEv(id, a, t) == [ev |-> "alloc", id |-> id, a |-> a, v |-> t.n, ty |-> t.ty]
DeallocEv(id, a) == [ev |-> "dealloc", id |-> id, a |-> a, v |-> 0, ty |-> "-"]
PrintEv(id, v) == [ev |-> "print", id |-> id, a |-> 0, v |-> v, ty |-> "-"]

\* ------------------------------------------------- variance (type checker)
\* struct Boks<T> { p: NonNull<T>, phantom: PhantomData<T> }
\* NonNull<T> is covariant in T (a *mut T would be invariant).
HandleVarianceRawMut == "invariant"

HandleVariance == "covariant"

PhantomVariance == "covariant"

\* The variance of a struct in T is the meet of its fields' variances.
Meet(v1, v2) == IF v1 = v2 THEN v1 ELSE "invariant"

BoksVariance == Meet(HandleVariance, PhantomVariance)

\* A is substitutable for B: the same type, or the longer-lived reference
\* (&'static str) where the shorter-lived one (&'s str) is expected.
Subtype(A, B) == A = B \/ (A = "str_static" /\ B = "str_local")

\* Boks<A> is accepted where Boks<B> is expected.
BoksSubtype(A, B) ==
    CASE BoksVariance = "covariant" -> Subtype(A, B)
      [] BoksVariance = "contravariant" -> Subtype(B, A)
      [] OTHER -> A = B

\* ----------------------------------------------------- drop check (dropck)
\* unsafe impl<#[may_dangle] T> Drop for Boks<T>
MayDangle == TRUE

\* Without the PhantomData<T> field the box would not be known to own a T.
OwnsTNoPhantom == FALSE

\* phantom: PhantomData<T>: the box owns a T, so dropping it drops a T.
OwnsT == TRUE

\* The data T borrows must still be live (and still borrowed) when the box
\* is dropped: always without #[may_dangle]; with it, only when the box owns
\* a T whose own destructor may read the borrowed data.
RequiresLiveAtDrop(ty) ==
    BorrowsZ(ty) /\ (IF MayDangle THEN OwnsT /\ HasObservingDrop(ty) ELSE TRUE)

\* --------------------------------------------------------------- helpers
IsLive(b) == slot[b].st = "live"

LiveSlots == {b \in Slots : IsLive(b)}

NoBorrow(b) == shared[b] = 0 /\ excl[b] = 0

RECURSIVE SumOver(_, _)
SumOver(f, S) ==
    IF S = {} THEN 0
    ELSE LET b == CHOOSE x \in S : TRUE IN f[b] + SumOver(f, S \ {b})

\* The references into boxes that the scope still uses.
NumRefs == SumOver(shared, Slots) + SumOver(excl, Slots)

\* The boxes that hold a `&mut z` the owner has not yet invalidated.
Holders == {b \in Slots : IsLive(b) /\ BorrowsZ(mem[slot[b].p].ty)
                          /\ slot[b].id \notin dangling}

\* The borrow checker lets the owner touch z (read it, write it, or borrow
\* it again) only if no box that holds `&mut z` needs it at its drop, and no
\* reference into such a box is still in use.
ZAccessAllowed ==
    \A b \in Holders : ~RequiresLiveAtDrop(mem[slot[b].p].ty) /\ NoBorrow(b)

\* After the owner touched z, the boxes that held `&mut z` may only be dropped.
DanglingAfterAccess == dangling \cup {slot[b].id : b \in Holders}

\* What `{:?}` shows for the value inside an Oisann: the number, or, through
\* a `&mut z`, the current value of z (anything if z is gone).
Shown(val) ==
    IF val.ty = "Oisann_refmut" THEN (IF zLive THEN {zval} ELSE I32) ELSE {val.n}

\* ------------------------------------------------------------- Drop glue
\* impl<T: Debug> Drop for Oisann<T>: println!("{:?}", self.0); other T
\* of the model have no destructor.
InnerDrop(id, val, shown) ==
    IF HasObservingDrop(val.ty) THEN <<PrintEv(id, shown)>> ELSE <<>>

\* Dropping a Box<T>: the destructor of T runs, then the storage is freed.
BoxDrop(id, a, val, shown) ==
    [events |-> InnerDrop(id, val, shown) \o <<DeallocEv(id, a)>>, freed |-> {a}]

\* drop with an empty body: the storage is never freed.
Boks_drop_leak(id, a, val, shown) == [events |-> <<>>, freed |-> {}]

\* drop that frees the storage first and runs the destructor of T afterwards.
Boks_drop_after_free(id, a, val, shown) ==
    [events |-> <<DeallocEv(id, a)>> \o InnerDrop(id, val, shown), freed |-> {a}]

\* drop that debug-prints *self.p before freeing, whatever T is.
Boks_drop_reading(id, a, val, shown) ==
    [events |-> <<PrintEv(id, shown)>> \o BoxDrop(id, a, val, shown).events,
     freed |-> {a}]

\* Drop for Boks<T>: Box::from_raw(self.p.as_ptr()); the temporary Box is
\* dropped at the end of the statement.
Boks_drop(id, a, val, shown) == BoxDrop(id, a, val, shown)

\* ------------------------------------------------------------------ Init
BoksInit ==
    /\ pc = "running"
    /\ slot = [b \in Slots |-> [st |-> "undeclared", id |-> 0, p |-> NULL, ty |-> "i32"]]
    /\ allocated = {}
    /\ mem = [a \in Addr |-> Uninit]
    /\ log = <<>>
    /\ shared = [b \in Slots |-> 0]
    /\ excl = [b \in Slots |-> 0]
    /\ dangling = {}
    /\ dirty = {}
    /\ zval = 42
    /\ zLive = TRUE
    /\ lastAssign = [from |-> "-", to |-> "-"]

EmptyInit0 ==
    /\ emptyT = "i32"
    /\ emptyCalls = 0
    /\ emptyRet = [called |-> FALSE, some |-> FALSE]

Init == BoksInit /\ EmptyInit0

\* ----------------------------------------------------------------- Boks
\* NonNull::dangling() in place of the pointer of the allocation.
NonNull_dangling(a) == NULL

\* NonNull::new_unchecked(Box::into_raw(..)): the address of the allocation,
\* which is never null.
NonNull_new_unchecked(a) == a

\* Box::new: the allocator hands out storage that is not in use.  Addresses
\* are interchangeable, so the model takes the lowest free one.
Box_new_addr == CHOOSE a \in Addr \ allocated : \A x \in Addr \ allocated : a <= x

\* Boks::ne(t) in `let b = Boks::ne(t);`: Box::new(t) allocates fresh storage
\* and moves t into it; the box keeps the address.  Writing `&mut z` to
\* build t is an access to z.
Boks_ne(b, t) ==
    /\ pc = "running"
    /\ slot[b].st = "undeclared"
    /\ \A k \in Slots : k < b => slot[k].st # "undeclared"
    /\ BorrowsZ(t.ty) => ZAccessAllowed
    /\ allocated # Addr
    /\ LET a == Box_new_addr IN
        /\ allocated' = allocated \cup {a}
        /\ mem' = [mem EXCEPT ![a] = t]
        /\ slot' = [slot EXCEPT ![b] = [st |-> "live", id |-> b,
                                        p |-> NonNull_new_unchecked(a), ty |-> t.ty]]
        /\ log' = Append(log, AllocEv(b, a, t))
    /\ dangling' = IF BorrowsZ(t.ty) THEN DanglingAfterAccess ELSE dangling
    /\ UNCHANGED <<pc, shared, excl, dirty, zval, zLive, lastAssign, emptyVars>>

\* fn deref(&self): the receiver is a shared borrow of the box.
DerefReceiver == "shared"

\* A deref_mut declared with a `&self` receiver.
DerefMutReceiverShared == "shared"

\* fn deref_mut(&mut self): the receiver is an exclusive borrow of the box.
DerefMutReceiver == "exclusive"

\* The borrow checker accepts a new borrow of box b of this kind.
CanBorrow(kind, b) ==
    IF kind = "shared" THEN excl[b] = 0 ELSE excl[b] = 0 /\ shared[b] = 0

\* A deref that reads through the pointer of the first declared box.
DerefTargetFirst(b) == slot[1].p

\* self.p.as_ref() / self.p.as_mut(): the address held by this box.
DerefTarget(b) == slot[b].p

\* Deref::deref: a `&T` to the value in the box's storage.
Deref(b) ==
    /\ pc = "running"
    /\ IsLive(b)
    /\ slot[b].id \notin dangling
    /\ CanBorrow(DerefReceiver, b)
    /\ NumRefs < MaxRefs
    /\ shared' = [shared EXCEPT ![b] = @ + 1]
    /\ UNCHANGED <<pc, slot, allocated, mem, log, excl, dangling,
                   dirty, zval, zLive, lastAssign, emptyVars>>

\* DerefMut::deref_mut: a `&mut T` to the value in the box's storage.
DerefMut(b) ==
    /\ pc = "running"
    /\ IsLive(b)
    /\ slot[b].id \notin dangling
    /\ CanBorrow(DerefMutReceiver, b)
    /\ NumRefs < MaxRefs
    /\ excl' = [excl EXCEPT ![b] = @ + 1]
    /\ UNCHANGED <<pc, slot, allocated, mem, log, shared, dangling, dirty, zval,
                   zLive, lastAssign, emptyVars>>

\* `*r = n` through the `&mut i32` that deref_mut returned.
WriteVia(b, n) ==
    /\ pc = "running"
    /\ IsLive(b)
    /\ excl[b] > 0
    /\ mem[DerefTarget(b)].ty = "i32"
    /\ mem[DerefTarget(b)].n # n
    /\ mem' = [mem EXCEPT ![DerefTarget(b)] = [ty |-> "i32", n |-> n]]
    /\ dirty' = dirty \cup {slot[b].id}
    /\ UNCHANGED <<pc, slot, allocated, log, shared, excl, dangling, zval, zLive,
                   lastAssign, emptyVars>>

\* The last use of a `&T` obtained from deref.
EndShared(b) ==
    /\ pc = "running"
    /\ shared[b] > 0
    /\ shared' = [shared EXCEPT ![b] = @ - 1]
    /\ UNCHANGED <<pc, slot, allocated, mem, log, excl, dangling, dirty, zval, zLive,
                   lastAssign, emptyVars>>

\* The last use of the `&mut T` obtained from deref_mut.
EndExcl(b) ==
    /\ pc = "running"
    /\ excl[b] > 0
    /\ excl' = [excl EXCEPT ![b] = @ - 1]
    /\ UNCHANGED <<pc, slot, allocated, mem, log, shared, dangling, dirty, zval,
                   zLive, lastAssign, emptyVars>>

\* The owner uses its variable (println!("{}", y), or an assignment to it)
\* while boxes may hold a `&mut` to it.
OwnerUse(v) ==
    /\ pc = "running"
    /\ ZAccessAllowed
    /\ zval' = v
    /\ dangling' = DanglingAfterAccess
    /\ UNCHANGED <<pc, slot, allocated, mem, log, shared, excl, dirty, zLive,
                   lastAssign, emptyVars>>

\* The effect of running Drop for Boks on the box in slot b.
RunDrop(b, shown) ==
    LET r == Boks_drop(slot[b].id, slot[b].p, mem[slot[b].p], shown) IN
    /\ allocated' = allocated \ r.freed
    /\ mem' = [x \in Addr |-> IF x \in r.freed THEN Uninit ELSE mem[x]]
    /\ log' = log \o r.events

\* A box that could still be used after it was assigned from (a bitwise copy).
MovedFromStCopy == "live"

\* Boks is neither Copy nor Clone: `dst = src` moves src, which is then unusable.
MovedFromSt == "moved"

\* `dst = src;` between two boxes (stdb1 = stdb2): accepted when Boks<from> is
\* a subtype of Boks<to>; the old value of dst is dropped, src is moved.
\* A rejected assignment is a compile error: the program never runs.
Assign(dst, src) ==
    /\ pc = "running"
    /\ dst # src
    /\ IsLive(src) /\ slot[src].id \notin dangling
    /\ slot[dst].st \in {"live", "moved"}
    /\ NoBorrow(src) /\ NoBorrow(dst)
    /\ IF BoksSubtype(slot[src].ty, slot[dst].ty)
       THEN /\ slot' = [slot EXCEPT
                    ![dst] = [st |-> "live", id |-> slot[src].id,
                              p |-> slot[src].p, ty |-> slot[dst].ty],
                    ![src] = [@ EXCEPT !.st = MovedFromSt]]
            /\ IF IsLive(dst)
               THEN \E shown \in Shown(mem[slot[dst].p]) : RunDrop(dst, shown)
               ELSE UNCHANGED <<allocated, mem, log>>
            /\ UNCHANGED <<pc, lastAssign>>
       ELSE /\ pc' = "rejected"
            /\ lastAssign' = [from |-> slot[src].ty, to |-> slot[dst].ty]
            /\ UNCHANGED <<slot, allocated, mem, log>>
    /\ UNCHANGED <<shared, excl, dangling, dirty, zval,
                   zLive, emptyVars>>

\* The box in slot b goes out of scope while the function goes on: the inner
\* block that declared it ends, or it is passed to drop().  The borrow
\* checker accepts this only if no reference into the box is used later.
EndOfBlock(b) ==
    /\ pc = "running"
    /\ IsLive(b)
    /\ NoBorrow(b)
    /\ \E shown \in Shown(mem[slot[b].p]) : RunDrop(b, shown)
    /\ slot' = [slot EXCEPT ![b] = [@ EXCEPT !.st = "dropped"]]
    /\ UNCHANGED <<pc, shared, excl, dangling, dirty, zval, zLive, lastAssign,
                   emptyVars>>

\* The scope is left, from wherever it is: at its end, by an early return,
\* or by a panic that unwinds.  No reference taken in the scope is used after this point.
ExitScope ==
    /\ pc = "running"
    /\ pc' = "exiting"
    /\ shared' = [b \in Slots |-> 0]
    /\ excl' = [b \in Slots |-> 0]
    /\ UNCHANGED <<slot, allocated, mem, log, dangling, dirty, zval,
                   zLive, lastAssign, emptyVars>>

\* Locals are dropped in reverse order of declaration: the last declared
\* box that still owns a value is dropped next.
DropLocal ==
    /\ pc = "exiting"
    /\ LiveSlots # {}
    /\ LET b == CHOOSE x \in LiveSlots : \A y \in LiveSlots : y <= x IN
        /\ \E shown \in Shown(mem[slot[b].p]) : RunDrop(b, shown)
        /\ slot' = [slot EXCEPT ![b] = [@ EXCEPT !.st = "dropped"]]
    /\ UNCHANGED <<pc, shared, excl, dangling, dirty, zval,
                   zLive, lastAssign, emptyVars>>

\* Every box is gone; the variables declared before them (z) go last.
Finish ==
    /\ pc = "exiting"
    /\ LiveSlots = {}
    /\ pc' = "done"
    /\ zLive' = FALSE
    /\ UNCHANGED <<slot, allocated, mem, log, shared, excl, dangling, dirty, zval,
                   lastAssign, emptyVars>>

Next ==
    \/ \E b \in Slots, t \in Vals : Boks_ne(b, t)
    \/ \E b \in Slots : Deref(b)
    \/ \E b \in Slots : DerefMut(b)
    \/ \E b \in Slots, n \in I32 : WriteVia(b, n)
    \/ \E b \in Slots : EndShared(b)
    \/ \E b \in Slots : EndExcl(b)
    \/ \E v \in I32 : OwnerUse(v)
    \/ \E dst \in Slots, src \in Slots : Assign(dst, src)
    \/ \E b \in Slots : EndOfBlock(b)
    \/ ExitScope
    \/ DropLocal
    \/ Finish

Spec == Init /\ [][Next]_vars

\* Once the scope is left, the drop glue runs to completion.
FairSpec == Spec /\ WF_vars(DropLocal) /\ WF_vars(Finish)

\* ---------------------------------------------------------------- Empty
\* An iterator that yields a value.
Empty_next_some == [called |-> TRUE, some |-> TRUE]

\* Iterator::next for Empty<T>: None.
Empty_next == [called |-> TRUE, some |-> FALSE]

EmptyCall ==
    /\ emptyCalls < MaxCalls
    /\ emptyCalls' = emptyCalls + 1
    /\ emptyRet' = Empty_next
    /\ UNCHANGED <<emptyT, boksVars>>

EmptyInit ==
    /\ BoksInit
    /\ emptyT \in Types
    /\ emptyCalls = 0
    /\ emptyRet = [called |-> FALSE, some |-> FALSE]

EmptyNext == EmptyCall

EmptySpec == EmptyInit /\ [][EmptyNext]_vars

\* ------------------------------------------------------ reading the trace
LogIdx == 1..Len(log)

Allocs(id) == {i \in LogIdx : log[i].ev = "alloc" /\ log[i].id = id}

Deallocs(id) == {i \in LogIdx : log[i].ev = "dealloc" /\ log[i].id = id}

Prints(id) == {i \in LogIdx : log[i].ev = "print" /\ log[i].id = id}

\* The boxes Boks::ne has built so far (slot b, once declared, built box b).
Built == {id \in Slots : slot[id].st # "undeclared"}

\* The boxes that a variable still owns.
Owned == {slot[b].id : b \in LiveSlots}

\* The value Boks::ne was called with for box id.
GivenVal(id) ==
    LET i == CHOOSE j \in Allocs(id) : TRUE IN [ty |-> log[i].ty, n |-> log[i].v]

\* What a `&T` returned by deref of the box in slot b reads.
Deref_value(b) == mem[DerefTarget(b)]

\* The addresses the allocator instrumentation says are in use: allocated
\* and not deallocated since.
InUse ==
    {a \in Addr : \E i \in LogIdx :
        /\ log[i].ev = "alloc" /\ log[i].a = a
        /\ \A j \in LogIdx : j > i => ~(log[j].ev = "dealloc" /\ log[j].a = a)}

\* ----------------------------------------------------------------- claims

\* C1: single release.  Every box built has exactly one allocation; a box is
\* deallocated exactly once, when no variable owns it any more, and that
\* deallocation is of the storage its allocation returned; no storage is
\* deallocated twice (between two deallocations of an address lies an
\* allocation of it); and when the scope is done the allocations and the
\* deallocations are equal in number and nothing is left allocated.
C1_SingleRelease ==
    /\ \A id \in Slots :
        /\ Cardinality(Allocs(id)) = (IF id \in Built THEN 1 ELSE 0)
        /\ Cardinality(Deallocs(id)) = (IF id \in Built \ Owned THEN 1 ELSE 0)
        /\ \A j \in Deallocs(id) : \E i \in Allocs(id) : i < j /\ log[i].a = log[j].a
    /\ \A i \in LogIdx, j \in LogIdx :
        (i < j /\ log[i].ev = "dealloc" /\ log[j].ev = "dealloc" /\ log[i].a = log[j].a)
            => \E k \in LogIdx : i < k /\ k < j /\ log[k].ev = "alloc" /\ log[k].a = log[i].a
    /\ allocated = InUse
    /\ pc = "done" =>
        /\ allocated = {}
        /\ Cardinality({i \in LogIdx : log[i].ev = "alloc"})
             = Cardinality({i \in LogIdx : log[i].ev = "dealloc"})

\* C1 witness: the scope is done after two boxes were built and released,
\* the second in the storage the first had given back.
C1_Witness ==
    /\ pc = "done"
    /\ \E i \in LogIdx, j \in LogIdx :
        i < j /\ log[i].ev = "dealloc" /\ log[j].ev = "dealloc" /\ log[i].a = log[j].a

\* C2: round trip.  A `&T` obtained by deref of a box that has not been
\* written through deref_mut since Boks::ne(v) reads v.
C2_RoundTrip ==
    \A b \in Slots :
        (IsLive(b) /\ shared[b] > 0 /\ slot[b].id \notin dirty)
            => Deref_value(b) = GivenVal(slot[b].id)

\* C2 witness: the second box, holding Oisann(42), has been dereferenced.
C2_Witness ==
    /\ IsLive(2) /\ shared[2] > 0
    /\ Deref_value(2) = [ty |-> "Oisann_i32", n |-> 42]

\* C3 as claimed: releasing a box only deallocates, whatever T is: no
\* release ever reads (prints) the contained value.
C3_ReleaseOnlyDeallocates ==
    \A i \in LogIdx : log[i].ev \in {"alloc", "dealloc"}

\* C3 amended: the release of a box reads the contained value only by
\* running the destructor of T, so only when T is an Oisann; the release of
\* a box of any other T, such as a `&mut` to a variable its owner has used
\* again since, only deallocates.
C3_ReleaseReadsOnlyInInnerDrop ==
    \A id \in Slots :
        Prints(id) # {} => (id \in Built /\ HasObservingDrop(GivenVal(id).ty))

\* C3 witness: a box built around `&mut z` was released after the owner used
\* z again, and nothing was printed for it.
C3_Witness ==
    \E id \in Built :
        /\ GivenVal(id).ty = "refmut"
        /\ id \in dangling
        /\ Deallocs(id) # {}
        /\ Prints(id) = {}

\* C4: destructor ordering.  For a box that holds an Oisann the debug print
\* happens at most once, exactly once when the storage has been deallocated,
\* and every print comes after the allocation and before the deallocation.
C4_DestructorOrdering ==
    \A id \in Built :
        HasObservingDrop(GivenVal(id).ty) =>
            /\ Cardinality(Prints(id)) <= 1
            /\ Deallocs(id) # {} => Cardinality(Prints(id)) = 1
            /\ \A i \in Prints(id) :
                /\ \E k \in Allocs(id) : k < i
                /\ \A j \in Deallocs(id) : i < j
                /\ GivenVal(id).ty = "Oisann_i32" => log[i].v = GivenVal(id).n

\* C4 witness: a Boks<Oisann<i32>> was destroyed: 42 printed, then freed.
C4_Witness ==
    \E id \in Built :
        /\ GivenVal(id).ty = "Oisann_i32"
        /\ Deallocs(id) # {}
        /\ \E i \in Prints(id) : log[i].v = 42

\* C5: wrapper referent validity.  While a box holds Oisann(&mut z), z is
\* live, the owner may not use z and has not used it since the box was
\* built; and this was so when the wrapper's destructor printed through it.
C5_WrapperReferentValid ==
    /\ \A b \in LiveSlots :
        mem[slot[b].p].ty = "Oisann_refmut" =>
            /\ zLive
            /\ slot[b].id \notin dangling
            /\ ~ZAccessAllowed
    /\ \A id \in Built :
        (GivenVal(id).ty = "Oisann_refmut" /\ Prints(id) # {}) => id \notin dangling

\* C5 witness: a Boks<Oisann<&mut z>> was destroyed, its destructor printed
\* z, and the owner has used z (given it the value 7) after that.
C5_Witness ==
    \E id \in Built :
        /\ GivenVal(id).ty = "Oisann_refmut"
        /\ \E i \in Prints(id) : log[i].v = 42
        /\ zval = 7

\* C6: live storage.  A box that a variable owns has a non-null handle to
\* allocated storage that holds an initialized value, and no other variable
\* owns the same storage; a variable that owns no box has no borrow
\* outstanding, and no borrow is outstanding once the scope is left.
C6_LiveStorage ==
    /\ \A b \in Slots :
        IF IsLive(b)
        THEN /\ slot[b].p # NULL
             /\ slot[b].p \in allocated
             /\ mem[slot[b].p] # Uninit
             /\ \A c \in LiveSlots : c # b => slot[c].p # slot[b].p
        ELSE NoBorrow(b)
    /\ pc \in {"exiting", "done"} => \A b \in Slots : NoBorrow(b)

\* C6 witness: one box was released by an assignment while the other, which
\* has a borrow outstanding, is live.
C6_Witness ==
    /\ \E b \in Slots : IsLive(b) /\ shared[b] > 0
    /\ \E i \in LogIdx : log[i].ev = "dealloc"

\* C7: aliasing discipline.  On each box there is at most one exclusive
\* borrow and then no shared one, or only shared ones; a variable that owns
\* no box has no borrow outstanding.
C7_Aliasing ==
    \A b \in Slots :
        /\ excl[b] <= 1
        /\ excl[b] = 1 => shared[b] = 0
        /\ ~IsLive(b) => NoBorrow(b)

\* C7 witness: two shared borrows of one box are outstanding.
C7_Witness == \E b \in Slots : shared[b] = 2 /\ excl[b] = 0

\* C8: the empty producer.  After any number of calls, the last call to
\* Empty::next returned None.
C8_EmptyAlwaysNone ==
    /\ emptyRet.called <=> emptyCalls > 0
    /\ emptyRet.called => ~emptyRet.some

\* C8 witness: next has been called many times.
C8_Witness == emptyCalls >= 10 /\ emptyRet.called /\ emptyT = "Oisann_refmut"

\* C9: guaranteed release.  Once the scope is left, on whatever path, it
\* ends with every box released: nothing is left allocated.
C9_GuaranteedRelease == (pc = "exiting") ~> (pc = "done" /\ allocated = {})

\* C9 witness: the scope was left early (the second box was never declared)
\* and the box it had built has been released.
C9_Witness ==
    /\ pc = "done"
    /\ slot[1].st = "dropped" /\ slot[2].st = "undeclared"
    /\ Deallocs(1) # {}
    /\ allocated = {}

\* C10: covariance.  An assignment between boxes is rejected only if the
\* contained type of the source is not substitutable for that of the target.
C10_Covariance ==
    pc = "rejected" => ~Subtype(lastAssign.from, lastAssign.to)

\* C10 witness: a variable declared Boks<&'s str> owns, after an assignment,
\* the box that was built around the &'static str.
C10_Witness ==
    \E b \in LiveSlots :
        slot[b].ty = "str_local" /\ mem[slot[b].p].ty = "str_static"

====
